---- MODULE Spec2Model ----
(***************************************************************************)
(* TaskManager: login gate, task list screen (load, toggle, in-place sort  *)
(* on render) and add-task screen (validate, read, append, write), over a  *)
(* single AsyncStorage key "tasks".                                        *)
(*                                                                         *)
(* Every await of the source is a point where other handlers may run: an   *)
(* operation is split at its awaits.  A storage request that has been      *)
(* issued sits in `pending`; its completion step performs the storage      *)
(* effect together with the JavaScript continuation that follows the await *)
(* (up to the next await), or takes the rejection path.                    *)
(***************************************************************************)
EXTENDS Integers, Sequences, FiniteSets, Bags, TLC

\* ---------------------------------------------------------------- bounds
MaxTasks == 2      \* Creates are accepted while fewer tasks exist / are being added
MaxPending == 2    \* storage requests in flight at once
MaxClock == 2      \* readings of Date.now(): 1..MaxClock
MaxDay == 1        \* due dates fall on days 1..MaxDay
MaxMounts == 1     \* times the task list screen is mounted (logins)

\* ------------------------------------------------------- program constants
MsPerDay == 86400000

\* ------------------------------------------------------------------ state
VARIABLES
  screen,        \* route on top of the stack: "login", "list" or "add"
  mount,         \* generation of the mounted TaskList component (0: never mounted)
  loading,       \* TaskList state `loading`
  tasks,         \* TaskList state `tasks` (the array object, as left by the last render)
  storage,       \* value of AsyncStorage key "tasks"
  pending,       \* bag of storage requests issued and not yet completed
  alerts,        \* Alert.alert messages currently shown
  notification,  \* last notification scheduled
  now,           \* Date.now()
  event,         \* the handler or continuation that ran last
  obs            \* observer of two successive toggles of one task

vars == <<screen, mount, loading, tasks, storage, pending, alerts, notification, now, event, obs>>

\* ------------------------------------------------------------ input sets
Space == " "
Names == {<<>>, <<Space, Space>>, <<Space, "a", Space>>}
\* The first and the last millisecond of each day.
Instants == {d * MsPerDay + t : d \in 1..MaxDay, t \in {0, MsPerDay - 1}}
Credentials == {<<"user", "pass">>, <<"user", "guess">>}

\* ------------------------------------------------------------ conversions
\* String.prototype.trim on a sequence of characters.
RECURSIVE TrimStart(_)
TrimStart(s) ==
  IF s # <<>> /\ Head(s) = Space THEN TrimStart(Tail(s)) ELSE s

RECURSIVE TrimEnd(_)
TrimEnd(s) ==
  IF s # <<>> /\ s[Len(s)] = Space THEN TrimEnd(SubSeq(s, 1, Len(s) - 1)) ELSE s

Trim(s) == TrimEnd(TrimStart(s))

\* Number.prototype.toString: the decimal digits of n.
Digits == <<"0", "1", "2", "3", "4", "5", "6", "7", "8", "9">>

RECURSIVE NatToString(_)
NatToString(n) ==
  IF n < 10 THEN <<Digits[n + 1]>>
  ELSE NatToString(n \div 10) \o <<Digits[(n % 10) + 1]>>

\* date.toISOString().split("T")[0]: the UTC calendar day of an instant. The
\* "YYYY-MM-DD" string is represented by the number of that day.
\* The calendar day of a zone twelve hours ahead of UTC.
ToISODateAhead(ms) == (ms + MsPerDay \div 2) \div MsPerDay

ToISODate(ms) == ms \div MsPerDay

\* new Date("YYYY-MM-DD").getTime(): midnight UTC of the day.
DateGetTime(day) == day * MsPerDay

\* The value kept under the key: null (key absent), text that is not JSON, or
\* the JSON text of an array of task objects, held as one field tuple per task.
Null == [kind |-> "null", items |-> <<>>]
Garbage == [kind |-> "garbage", items |-> <<>>]

JSONstringify(ts) ==
  [kind |-> "json",
   items |-> [i \in 1..Len(ts) |-> <<ts[i].id, ts[i].name, ts[i].dueDate, ts[i].done>>]]

ParseThrows(text) == text.kind # "json"

JSONparse(text) ==
  [i \in 1..Len(text.items) |->
     [id |-> text.items[i][1], name |-> text.items[i][2],
      dueDate |-> text.items[i][3], done |-> text.items[i][4]]]

\* `storedTasks ? ... : ...`: null is falsy, a non-empty string is truthy.
Truthy(text) == text.kind # "null"

\* AsyncStorage.mergeItem in place of setItem: entries past the end of the new
\* array survive from the old one.
SetItemMerge(current, value) ==
  IF current.kind = "json" /\ Len(current.items) > Len(value.items)
    THEN [kind |-> "json",
          items |-> value.items \o
                    SubSeq(current.items, Len(value.items) + 1, Len(current.items))]
    ELSE value

\* AsyncStorage.setItem("tasks", value): the value replaces the old one in full.
SetItem(current, value) == value

\* The persisted Task Collection: what the stored text holds (none when the
\* key is absent or the text is not JSON).
Stored(text) ==
  IF Truthy(text) /\ ~ParseThrows(text) THEN JSONparse(text) ELSE <<>>

\* The tasks of a collection, with multiplicity and without order.
TaskBag(ts) ==
  LET S == {ts[i] : i \in 1..Len(ts)}
  IN [t \in S |-> Cardinality({i \in 1..Len(ts) : ts[i] = t})]

SameTasks(a, b) == TaskBag(a) = TaskBag(b)

\* --------------------------------------------------------------- ordering
\* A comparator that forgets the done flag.
CompareDateOnly(a, b) == DateGetTime(a.dueDate) - DateGetTime(b.dueDate)

\* The comparator handed to Array.prototype.sort by the list's render.
Compare(a, b) ==
  IF a.done = b.done
    THEN DateGetTime(a.dueDate) - DateGetTime(b.dueDate)
    ELSE IF a.done THEN 1 ELSE -1

RECURSIVE InsertSorted(_, _)
InsertSorted(x, s) ==
  IF s = <<>> THEN <<x>>
  ELSE IF Compare(Head(s), x) <= 0
    THEN <<Head(s)>> \o InsertSorted(x, Tail(s))
    ELSE <<x>> \o s

RECURSIVE SortFrom(_, _)
SortFrom(done, rest) ==
  IF rest = <<>> THEN done
  ELSE SortFrom(InsertSorted(Head(rest), done), Tail(rest))

\* Array.prototype.sort(Compare): a stable sort (ECMAScript 2019).
SortTasks(ts) == SortFrom(<<>>, ts)

\* What a render of TaskList leaves in the `tasks` array: the spinner is
\* returned while loading, the empty view for no tasks, else the array is
\* sorted in place and handed to the FlatList.
Render(isLoading, ts) ==
  IF isLoading \/ Len(ts) = 0 THEN ts ELSE SortTasks(ts)

\* ------------------------------------------------------ records and helpers
NoTask == [id |-> <<>>, name |-> <<>>, dueDate |-> 0, done |-> FALSE]

\* A storage request in flight, with the variables its continuation closes over.
\* `base` is the collection the operation works from (the `tasks` of the render
\* for a toggle, the parsed read for a save); `fresh` notes whether `base` held
\* the persisted tasks when the operation took it.
Request(kind, m, name, dueDate, base, updated, task, newDone, fresh) ==
  [kind |-> kind, mount |-> m, name |-> name, dueDate |-> dueDate,
   base |-> base, updated |-> updated, task |-> task, newDone |-> newDone,
   fresh |-> fresh]

NoRequest == Request("none", 0, <<>>, 0, <<>>, <<>>, NoTask, FALSE, FALSE)

\* loadTasks: AsyncStorage.getItem("tasks") issued by TaskList generation m.
LoadRequest(m) == Request("load", m, <<>>, 0, <<>>, <<>>, NoTask, FALSE, FALSE)

NoNotification == [title |-> "none", name |-> <<>>]

\* Observer of two successive toggles of one task with nothing else in flight
\* or in between: stage 1..4 (first tapped, first saved, second tapped, second
\* saved), the task id and the stored value before the first tap.
NoObs == [stage |-> 0, id |-> <<>>, before |-> Null]

\* The handler or continuation that ran last: its name, the task name typed
\* (saveTask) and, for a completed write, whether the stored value it replaced
\* no longer held the tasks of the snapshot it had started from in sync.
Event(op, name, overwrote) == [op |-> op, name |-> name, overwrote |-> overwrote]

One(r) == SetToBag({r})

InFlight == BagCardinality(pending)

Requests(kind) == {r \in BagToSet(pending) : r.kind = kind}

\* Number of tasks in the stored text (0 when it holds no array).
StoredCount == Len(storage.items)

CreatesInFlight ==
  LET rs == Requests("getItem") \cup Requests("setItemCreate")
      RECURSIVE Sum(_)
      Sum(S) == IF S = {} THEN 0
                ELSE LET r == CHOOSE x \in S : TRUE
                     IN CopiesIn(r, pending) + Sum(S \ {r})
  IN Sum(rs)

\* The TaskList instance of generation m is still mounted (setState acts on it).
Mounted(m) == m = mount /\ screen # "login"

Ids(ts) == {ts[i].id : i \in 1..Len(ts)}

\* ------------------------------------------------------------------- Init
Init ==
  /\ screen = "login"
  /\ mount = 0
  /\ loading = TRUE
  /\ tasks = <<>>
  /\ storage \in {Null, Garbage}
  /\ pending = EmptyBag
  /\ alerts = {}
  /\ notification = NoNotification
  /\ now = 1
  /\ event = Event("init", <<>>, FALSE)
  /\ obs = NoObs

\* ------------------------------------------------------------ login screen
\* handleLogin: the fixed credential check; success replaces the route by the
\* task list, which mounts (tasks = [], loading = true) and, gaining focus,
\* starts loadTasks.
handleLogin(c) ==
  /\ screen = "login"
  /\ alerts = {}
  /\ IF c[1] = "user" /\ c[2] = "pass"
       THEN /\ mount < MaxMounts
            /\ InFlight < MaxPending
            /\ screen' = "list"
            /\ mount' = mount + 1
            /\ loading' = TRUE
            /\ tasks' = <<>>
            /\ pending' = pending (+) One(LoadRequest(mount + 1))
            /\ event' = Event("login", <<>>, FALSE)
            /\ UNCHANGED alerts
       ELSE /\ alerts' = alerts \cup {"Invalid username or password"}
            /\ event' = Event("loginRejected", <<>>, FALSE)
            /\ UNCHANGED <<screen, mount, loading, tasks, pending>>
  /\ obs' = NoObs
  /\ UNCHANGED <<storage, notification, now>>

\* ------------------------------------------------------------- task list
\* handleLogout: router.replace("/") unmounts the task list; its state is gone.
handleLogout ==
  /\ screen = "list"
  /\ ~loading
  /\ alerts = {}
  /\ screen' = "login"
  /\ loading' = TRUE
  /\ tasks' = <<>>
  /\ event' = Event("logout", <<>>, FALSE)
  /\ obs' = NoObs
  /\ UNCHANGED <<mount, storage, pending, alerts, notification, now>>

\* The "+" button: router.push("/screens/add-task").
OpenAddTask ==
  /\ screen = "list"
  /\ ~loading
  /\ alerts = {}
  /\ screen' = "add"
  /\ event' = Event("openAdd", <<>>, FALSE)
  /\ obs' = NoObs
  /\ UNCHANGED <<mount, loading, tasks, storage, pending, alerts, notification, now>>

\* loadTasks after getItem resolved: a truthy value is parsed and set (a parse
\* error is caught and logged), null sets nothing; finally loading = false.
\* The render that follows sorts the array in place.
LoadResolved(r) ==
  /\ r \in Requests("load")
  /\ pending' = pending (-) One(r)
  /\ IF Mounted(r.mount)
       THEN /\ loading' = FALSE
            /\ tasks' = IF Truthy(storage) /\ ~ParseThrows(storage)
                          THEN Render(FALSE, JSONparse(storage))
                          ELSE Render(FALSE, tasks)
       ELSE UNCHANGED <<loading, tasks>>
  /\ event' = Event(IF Truthy(storage) /\ ParseThrows(storage)
                      THEN "loadParseError" ELSE "loaded", <<>>, FALSE)
  /\ obs' = NoObs
  /\ UNCHANGED <<screen, mount, storage, alerts, notification, now>>

\* loadTasks when getItem rejects: caught, logged; finally loading = false.
LoadRejected(r) ==
  /\ r \in Requests("load")
  /\ pending' = pending (-) One(r)
  /\ IF Mounted(r.mount)
       THEN /\ loading' = FALSE
            /\ tasks' = Render(FALSE, tasks)
       ELSE UNCHANGED <<loading, tasks>>
  /\ event' = Event("loadRejected", <<>>, FALSE)
  /\ obs' = NoObs
  /\ UNCHANGED <<screen, mount, storage, alerts, notification, now>>

\* tasks.filter in place of tasks.map: only the toggled task is kept.
UpdatedTasksOnlyToggled(ts, id, newDone) ==
  SelectSeq([i \in 1..Len(ts) |-> [ts[i] EXCEPT !.done = newDone]],
            LAMBDA t : t.id = id)

\* tasks.map(task => task.id === id ? {...task, done: newDoneStatus} : task)
UpdatedTasks(ts, id, newDone) ==
  [i \in 1..Len(ts) |-> IF ts[i].id = id THEN [ts[i] EXCEPT !.done = newDone] ELSE ts[i]]

\* tasks.find(task => task.id === id): the first match.
Find(ts, id) ==
  LET i == CHOOSE k \in 1..Len(ts) :
             ts[k].id = id /\ \A j \in 1..(k - 1) : ts[j].id # id
  IN ts[i]

NewDoneStatus(task) == ~task.done

\* toggleTask up to `await AsyncStorage.setItem` in saveTasks: a tap on the row
\* of task id, computed from the `tasks` of the render the row belongs to.
toggleTask(id) ==
  /\ screen = "list"
  /\ ~loading
  /\ alerts = {}
  /\ id \in Ids(tasks)
  /\ InFlight < MaxPending
  /\ LET taskToUpdate == Find(tasks, id)
         newDoneStatus == NewDoneStatus(taskToUpdate)
         updatedTasks == UpdatedTasks(tasks, id, newDoneStatus)
         r == Request("setItemToggle", mount, <<>>, 0, tasks, updatedTasks,
                      taskToUpdate, newDoneStatus, SameTasks(tasks, Stored(storage)))
     IN /\ pending' = pending (+) One(r)
        /\ event' = Event("toggle", <<>>, FALSE)
  /\ obs' = IF obs.stage = 2 /\ obs.id = id /\ pending = EmptyBag
              THEN [obs EXCEPT !.stage = 3]
              ELSE IF pending = EmptyBag
                THEN [stage |-> 1, id |-> id, before |-> storage]
                ELSE NoObs
  /\ UNCHANGED <<screen, mount, loading, tasks, storage, alerts, notification, now>>

\* showTaskNotification(task, isDone)
Notification(task, isDone) ==
  [title |-> IF isDone THEN "Task Completed!" ELSE "Task Reopened", name |-> task.name]

\* saveTasks after setItem resolved: setTasks(updatedTasks), the render sorts
\* that array in place; toggleTask then schedules the notification.
ToggleSaved(r) ==
  /\ r \in Requests("setItemToggle")
  /\ pending' = pending (-) One(r)
  /\ storage' = SetItem(storage, JSONstringify(r.updated))
  /\ IF Mounted(r.mount)
       THEN tasks' = Render(loading, r.updated)
       ELSE UNCHANGED tasks
  /\ notification' = Notification(r.task, r.newDone)
  /\ event' = Event("toggleSaved", <<>>, r.fresh /\ ~SameTasks(r.base, Stored(storage)))
  /\ obs' = IF obs.stage \in {1, 3} THEN [obs EXCEPT !.stage = @ + 1] ELSE NoObs
  /\ UNCHANGED <<screen, mount, loading, alerts, now>>

\* saveTasks when setItem rejects: caught and logged, state untouched;
\* toggleTask goes on to schedule the notification.
ToggleSaveRejected(r) ==
  /\ r \in Requests("setItemToggle")
  /\ pending' = pending (-) One(r)
  /\ notification' = Notification(r.task, r.newDone)
  /\ event' = Event("toggleSaveRejected", <<>>, FALSE)
  /\ obs' = NoObs
  /\ UNCHANGED <<screen, mount, loading, tasks, storage, alerts, now>>

\* -------------------------------------------------------- add-task screen
\* The task object built by saveTask.
NewTask(name, dueDate, clock) ==
  [id |-> NatToString(clock), name |-> Trim(name),
   dueDate |-> ToISODate(dueDate), done |-> FALSE]

\* `!name` in place of `!name.trim()`.
NameMissingUntrimmed(name) == name = <<>>

\* `!name.trim()`
NameMissing(name) == Trim(name) = <<>>

\* saveTask up to `await AsyncStorage.getItem`: validation, then the read is issued.
saveTask(name, dueDate) ==
  /\ screen = "add"
  /\ alerts = {}
  /\ IF NameMissing(name)
       THEN /\ alerts' = alerts \cup {"Please enter a task name"}
            /\ event' = Event("nameRejected", name, FALSE)
            /\ UNCHANGED pending
       ELSE /\ InFlight < MaxPending
            /\ StoredCount + CreatesInFlight < MaxTasks
            /\ LET r == Request("getItem", 0, name, dueDate, <<>>, <<>>, NoTask, FALSE, FALSE)
               IN /\ pending' = pending (+) One(r)
                  /\ event' = Event("save", name, FALSE)
            /\ UNCHANGED alerts
  /\ obs' = NoObs
  /\ UNCHANGED <<screen, mount, loading, tasks, storage, notification, now>>

\* saveTask after getItem resolved: parse (null gives []), build the task with
\* id Date.now(), append, issue setItem. A parse error lands in the catch.
SaveRead(r) ==
  /\ r \in Requests("getItem")
  /\ IF Truthy(storage) /\ ParseThrows(storage)
       THEN /\ pending' = pending (-) One(r)
            /\ alerts' = alerts \cup {"Failed to save task"}
            /\ event' = Event("saveParseError", <<>>, FALSE)
       ELSE LET stored == IF Truthy(storage) THEN JSONparse(storage) ELSE <<>>
                newTask == NewTask(r.name, r.dueDate, now)
                w == Request("setItemCreate", 0, <<>>, 0, stored,
                             Append(stored, newTask), newTask, FALSE, TRUE)
            IN /\ pending' = (pending (-) One(r)) (+) One(w)
               /\ event' = Event("saveRead", <<>>, FALSE)
               /\ UNCHANGED alerts
  /\ obs' = NoObs
  /\ UNCHANGED <<screen, mount, loading, tasks, storage, notification, now>>

\* saveTask when getItem rejects: the catch alerts.
SaveReadRejected(r) ==
  /\ r \in Requests("getItem")
  /\ pending' = pending (-) One(r)
  /\ alerts' = alerts \cup {"Failed to save task"}
  /\ event' = Event("saveReadRejected", <<>>, FALSE)
  /\ obs' = NoObs
  /\ UNCHANGED <<screen, mount, loading, tasks, storage, notification, now>>

\* saveTask after setItem resolved: router.back(). Leaving the add-task screen
\* focuses the task list, whose focus effect starts loadTasks; with no
\* add-task screen on top there is nothing to go back to.
SaveWritten(r) ==
  /\ r \in Requests("setItemCreate")
  /\ storage' = SetItem(storage, JSONstringify(r.updated))
  /\ IF screen = "add"
       THEN /\ screen' = "list"
            /\ pending' = (pending (-) One(r)) (+) One(LoadRequest(mount))
       ELSE /\ pending' = pending (-) One(r)
            /\ UNCHANGED screen
  /\ event' = Event("saved", <<>>, ~SameTasks(r.base, Stored(storage)))
  /\ obs' = NoObs
  /\ UNCHANGED <<mount, loading, tasks, alerts, notification, now>>

\* saveTask when setItem rejects: the catch alerts, the screen stays.
SaveWriteRejected(r) ==
  /\ r \in Requests("setItemCreate")
  /\ pending' = pending (-) One(r)
  /\ alerts' = alerts \cup {"Failed to save task"}
  /\ event' = Event("saveWriteRejected", <<>>, FALSE)
  /\ obs' = NoObs
  /\ UNCHANGED <<screen, mount, loading, tasks, storage, notification, now>>

\* The Cancel button: router.back(); the task list regains focus and reloads.
CancelAddTask ==
  /\ screen = "add"
  /\ alerts = {}
  /\ InFlight < MaxPending
  /\ screen' = "list"
  /\ pending' = pending (+) One(LoadRequest(mount))
  /\ event' = Event("cancel", <<>>, FALSE)
  /\ obs' = NoObs
  /\ UNCHANGED <<mount, loading, tasks, storage, alerts, notification, now>>

\* ------------------------------------------------------------ environment
\* The user closes an alert.
DismissAlert(a) ==
  /\ a \in alerts
  /\ alerts' = alerts \ {a}
  /\ event' = Event("dismiss", <<>>, FALSE)
  /\ obs' = NoObs
  /\ UNCHANGED <<screen, mount, loading, tasks, storage, pending, notification, now>>

\* The clock advances between any two steps, or does not.
Tick ==
  /\ now < MaxClock
  /\ now' = now + 1
  /\ UNCHANGED <<screen, mount, loading, tasks, storage, pending, alerts,
                 notification, event, obs>>

\* ------------------------------------------------------------------- Next
Next ==
  \/ \E c \in Credentials : handleLogin(c)
  \/ handleLogout
  \/ OpenAddTask
  \/ \E r \in BagToSet(pending) : LoadResolved(r)
  \/ \E r \in BagToSet(pending) : LoadRejected(r)
  \/ \E id \in Ids(tasks) : toggleTask(id)
  \/ \E r \in BagToSet(pending) : ToggleSaved(r)
  \/ \E r \in BagToSet(pending) : ToggleSaveRejected(r)
  \/ \E name \in Names, dueDate \in Instants : saveTask(name, dueDate)
  \/ \E r \in BagToSet(pending) : SaveRead(r)
  \/ \E r \in BagToSet(pending) : SaveReadRejected(r)
  \/ \E r \in BagToSet(pending) : SaveWritten(r)
  \/ \E r \in BagToSet(pending) : SaveWriteRejected(r)
  \/ CancelAddTask
  \/ \E a \in alerts : DismissAlert(a)
  \/ Tick

Spec == Init /\ [][Next]_vars

\* ------------------------------------------------- render of a loaded list
\* The list screen between setTasks(collection) and the render that follows,
\* for every collection of up to MaxSortLen tasks over MaxSortDay due days.
MaxSortLen == 3
MaxSortDay == 3

SortTaskAt(i, day, done) ==
  [id |-> NatToString(i), name |-> <<"a">>, dueDate |-> day, done |-> done]

SortInputs ==
  UNION {
    {[i \in 1..n |-> SortTaskAt(i, f[i][1], f[i][2])] :
       f \in [1..n -> (1..MaxSortDay) \X BOOLEAN]} : n \in 0..MaxSortLen}

SortInit ==
  /\ screen = "list"
  /\ mount = 1
  /\ loading = FALSE
  /\ tasks \in SortInputs
  /\ storage = JSONstringify(tasks)
  /\ pending = EmptyBag
  /\ alerts = {}
  /\ notification = NoNotification
  /\ now = 1
  /\ event = Event("setTasks", <<>>, FALSE)
  /\ obs = NoObs

\* The render after setTasks: the FlatList is given tasks.sort(Compare).
RenderList ==
  /\ event.op = "setTasks"
  /\ tasks' = Render(loading, tasks)
  /\ event' = Event("render", <<>>, FALSE)
  /\ UNCHANGED <<screen, mount, loading, storage, pending, alerts, notification, now, obs>>

SortNext == RenderList

SortSpec == SortInit /\ [][SortNext]_vars

\* =================================================================== claims
\* Request r left `pending` in this step / request w entered it.
Consumed(r) == CopiesIn(r, pending') = CopiesIn(r, pending) - 1

Added(w) == CopiesIn(w, pending') = CopiesIn(w, pending) + 1

AllSpaces(s) == \A i \in 1..Len(s) : s[i] = Space

\* n is raw without its leading and trailing spaces, and is not empty.
IsTrimOf(n, raw) ==
  /\ n # <<>>
  /\ Head(n) # Space
  /\ n[Len(n)] # Space
  /\ \E i \in 0..Len(raw) :
       /\ i + Len(n) <= Len(raw)
       /\ SubSeq(raw, i + 1, i + Len(n)) = n
       /\ AllSpaces(SubSeq(raw, 1, i))
       /\ AllSpaces(SubSeq(raw, i + Len(n) + 1, Len(raw)))

\* day is the calendar day the instant ms falls on.
IsDayOf(day, ms) == day * MsPerDay <= ms /\ ms < (day + 1) * MsPerDay

SameIdentity(a, b) == a.id = b.id /\ a.name = b.name /\ a.dueDate = b.dueDate

\* C1: a Create with a name that is non-empty after trimming builds, from the
\* persisted collection it reads, that collection plus one task with
\* done = false, the trimmed name and the day of the input instant; when its
\* write completes, the persisted collection is exactly that: one task more
\* than the collection read, every task read still there.
C1_CreateAppendsOne ==
  [][ /\ \A r \in Requests("getItem") : \A w \in BagToSet(pending') :
           (Consumed(r) /\ Added(w) /\ w.kind = "setItemCreate") =>
             /\ w.base = Stored(storage)
             /\ w.updated = Append(w.base, w.task)
             /\ w.task.done = FALSE
             /\ IsTrimOf(w.task.name, r.name)
             /\ IsDayOf(w.task.dueDate, r.dueDate)
      /\ \A w \in Requests("setItemCreate") :
           (Consumed(w) /\ event'.op = "saved") =>
             /\ Len(Stored(storage')) = Len(w.base) + 1
             /\ SubSeq(Stored(storage'), 1, Len(w.base)) = w.base
             /\ Stored(storage')[Len(w.base) + 1] = w.task
    ]_vars

\* A Create completed on top of a non-empty collection that nothing else had
\* written since the Create read it.
C1_Witness ==
  /\ event.op = "saved"
  /\ ~event.overwrote
  /\ Len(Stored(storage)) = 2
  /\ screen = "list"

\* C2: there is no lock and no version check: every write that completes
\* replaces the stored value by the writer's own collection, whatever the
\* store holds by then, so a write started from an older snapshot wipes out
\* what was written in between.
C2_LastWriteWins ==
  [][ \A r \in BagToSet(pending) :
        (Consumed(r) /\ event'.op \in {"saved", "toggleSaved"}) =>
          /\ storage' = JSONstringify(r.updated)
          /\ Stored(storage') = r.updated
    ]_vars

\* Two overlapping operations have both completed without error, and the
\* second, a Toggle whose snapshot was up to date when it was tapped, has
\* overwritten what the first wrote in between.
C2_Witness ==
  /\ event.op = "toggleSaved"
  /\ event.overwrote
  /\ pending = EmptyBag
  /\ alerts = {}

\* Every task of `old` is in `new` with its id, name and dueDate; a done flag
\* differs only for the task toggled by request r.
KeptFrom(old, new, r) ==
  \A i \in 1..Len(old) : \E j \in 1..Len(new) :
    /\ SameIdentity(new[j], old[i])
    /\ new[j].done # old[i].done => (r.kind = "setItemToggle" /\ r.task.id = old[i].id)

\* C3 as stated: under any interleaving, every persisted task stays
\* persisted with its id, name and dueDate, and its done flag changes only by
\* a Toggle of its id.
C3_NeverDeletedOrEdited ==
  [][ storage' # storage =>
        \E r \in BagToSet(pending) :
          Consumed(r) /\ KeptFrom(Stored(storage), Stored(storage'), r)
    ]_vars

\* C3 amended: the persisted collection changes only by the write of a Create
\* or a Toggle, and that write keeps every task of the snapshot it started
\* from, position by position, with its id, name and dueDate, changing done
\* only for the toggled id; so when the snapshot holds the tasks persisted at
\* the time of the write, no persisted task is deleted or edited.
C3_WritesKeepSnapshot ==
  [][ storage' # storage =>
        \E r \in BagToSet(pending) :
          /\ Consumed(r)
          /\ r.kind \in {"setItemCreate", "setItemToggle"}
          /\ Len(Stored(storage')) >= Len(r.base)
          /\ \A i \in 1..Len(r.base) :
               /\ SameIdentity(Stored(storage')[i], r.base[i])
               /\ Stored(storage')[i].done # r.base[i].done =>
                    (r.kind = "setItemToggle" /\ r.task.id = r.base[i].id)
          /\ SameTasks(r.base, Stored(storage)) =>
               KeptFrom(Stored(storage), Stored(storage'), r)
    ]_vars

\* A Toggle wrote a two-task collection from an up-to-date snapshot.
C3_Witness ==
  /\ event.op = "toggleSaved"
  /\ ~event.overwrote
  /\ Len(Stored(storage)) = 2
  /\ \E i \in 1..2 : Stored(storage)[i].done

\* C4: the ids of the persisted collection are pairwise distinct.
C4_IdsUnique == Cardinality(Ids(Stored(storage))) = Len(Stored(storage))

\* C5: a failed storage write of Toggle or Create is shown to the user as a
\* blocking message and leaves the in-memory view (and the store) as it was.
C5_WriteFailureSurfaced ==
  [][ \A r \in BagToSet(pending) :
        (Consumed(r) /\ event'.op \in {"toggleSaveRejected", "saveWriteRejected"}) =>
          /\ alerts' # {}
          /\ tasks' = tasks
          /\ storage' = storage
    ]_vars

\* C6: a read that finds the key absent or the value unparseable yields the
\* empty collection and does not fail the operation: the list's load shows no
\* tasks and no message, and Create goes on to write from the empty collection.
C6_ReadsFailSoft ==
  [][ /\ \A r \in Requests("load") :
           (Consumed(r) /\ event'.op \in {"loaded", "loadParseError"}
              /\ Mounted(r.mount) /\ storage.kind # "json") =>
             tasks' = <<>> /\ ~loading' /\ alerts' = alerts
      /\ \A r \in Requests("getItem") :
           (Consumed(r) /\ event'.op # "saveReadRejected" /\ storage.kind # "json") =>
             /\ alerts' = alerts
             /\ \E w \in BagToSet(pending') :
                  Added(w) /\ w.kind = "setItemCreate" /\ w.base = <<>>
    ]_vars

\* C7 as stated: after two successive Toggles of one task, with nothing else
\* in flight or in between, the persisted collection holds the tasks it held
\* before the first.
C7_ToggleTwiceRestoresPersisted ==
  obs.stage = 4 => SameTasks(Stored(storage), Stored(obs.before))

\* C8: a Create whose name is empty or all spaces shows the validation
\* message and issues no storage request, leaving store, view and screen as
\* they were; only other names get as far as the read.
C8_BlankNameRejected ==
  [][ (event'.op \in {"save", "nameRejected"} /\ <<event, pending, alerts>>' # <<event, pending, alerts>>) =>
        IF AllSpaces(event'.name)
          THEN /\ event'.op = "nameRejected"
               /\ "Please enter a task name" \in alerts'
               /\ UNCHANGED <<storage, pending, screen, tasks>>
          ELSE /\ event'.op = "save"
               /\ alerts' = alerts
               /\ \E w \in BagToSet(pending') :
                    Added(w) /\ w.kind = "getItem" /\ w.name = event'.name
    ]_vars

\* A Create with an all-spaces name was rejected.
C8_Witness ==
  /\ event.op = "nameRejected"
  /\ event.name = <<Space, Space>>
  /\ "Please enter a task name" \in alerts

\* Not-done tasks come before done ones; within each group due dates ascend.
Ordered(ts) ==
  \A i \in 1..Len(ts) : \A j \in (i + 1)..Len(ts) :
    /\ ts[i].done => ts[j].done
    /\ ts[i].done = ts[j].done => ts[i].dueDate <= ts[j].dueDate

\* C9: the display ordering is a permutation of the collection, not-done
\* before done and ascending by dueDate within each group; A(false, Jan 5),
\* B(true, Jan 1), C(false, Jan 3) is displayed as [C, A, B].
C9_DisplayOrder ==
  /\ event.op = "render" => SameTasks(tasks, Stored(storage)) /\ Ordered(tasks)
  /\ LET A == [id |-> <<"1">>, name |-> <<"A">>, dueDate |-> 5, done |-> FALSE]
         B == [id |-> <<"2">>, name |-> <<"B">>, dueDate |-> 1, done |-> TRUE]
         C == [id |-> <<"3">>, name |-> <<"C">>, dueDate |-> 3, done |-> FALSE]
     IN Render(FALSE, <<A, B, C>>) = <<C, A, B>>

\* A three-task collection with both done and not-done tasks was rendered in
\* an order other than the stored one.
C9_Witness ==
  /\ event.op = "render"
  /\ Len(tasks) = 3
  /\ tasks # Stored(storage)
  /\ \E i, j \in 1..3 : tasks[i].done /\ ~tasks[j].done

\* C10: rendering leaves the view in the persisted order, so a Toggle from an
\* up-to-date view writes the persisted collection back, position by
\* position, with only the done flag of the toggled task changed.
C10_ToggleKeepsOrder ==
  [][ \A r \in Requests("setItemToggle") :
        (Consumed(r) /\ event'.op = "toggleSaved"
           /\ r.fresh /\ SameTasks(r.base, Stored(storage))) =>
          /\ Len(Stored(storage')) = Len(Stored(storage))
          /\ \A i \in 1..Len(Stored(storage)) :
               /\ SameIdentity(Stored(storage')[i], Stored(storage)[i])
               /\ Stored(storage')[i].done # Stored(storage)[i].done =>
                    r.task.id = Stored(storage)[i].id
    ]_vars

====
